---- MODULE Spec2Model ----
(***************************************************************************)
(* Model of api_rest (views.py, models.py, urls.py): the process-global    *)
(* spotify_tokens, the User table with its JSON preferences field, and the *)
(* request handlers callback, add_preferences and get_user_info together   *)
(* with the helpers they call (get_spotify_token, get_track_info,          *)
(* get_top_tracks, get_top_artists).  Every handler runs in a worker       *)
(* thread of the server; a handler's blocking points (the database read,   *)
(* each poll and sleep of the token wait, each HTTPS call, the save) are   *)
(* the steps at which other threads interleave.                            *)
(*                                                                         *)
(* Python values are records tagged with a "type" field, so that a str, a  *)
(* list, None and a rest_framework Response object are distinct values.    *)
(***************************************************************************)
EXTENDS Integers, Sequences, FiniteSets, TLC

\* ------------------------------------------------------------------ bounds
MaxUsers == 2        \* primary keys the User table hands out: 1..MaxUsers
MaxPrefs == 2        \* longest preferences list a request is started on

\* --------------------------------------------------------------- constants
timeout == 120       \* views.py line 120
HTTP_200_OK == 200
HTTP_400_BAD_REQUEST == 400
HTTP_408_REQUEST_TIMEOUT == 408

\* ------------------------------------------------------------ value spaces
Workers == {"w1", "w2"}          \* server threads that run view functions
UserIds == 1..MaxUsers
AccessTokens == {"tokA", "tokB"} \* access tokens the token endpoint issues
RefreshTokens == {"refA", "None"}\* token_data.get("refresh_token") may be None
ExpiresIn == {"3600"}
SpotifyStatuses == {200, 401}    \* status codes of a Spotify HTTPS answer

\* Python values
None == [type |-> "None"]
Str(s) == [type |-> "str", value |-> s]
List(items) == [type |-> "list", items |-> items]
\* rest_framework.response.Response(data={"error": error}, status=status)
Response(error, status) == [type |-> "Response", status |-> status, error |-> error]

IsStr(v) == v.type = "str"
IsList(v) == v.type = "list"
IsResponse(v) == v.type = "Response"

\* spotify_tokens = {} (views.py line 26): the empty dict
EmptyDict == [type |-> "dict", keys |-> {}]
\* the dict built at views.py lines 84-88
TokenDict(access, refresh, expires) ==
    [type |-> "dict", keys |-> {"access_token", "refresh_token", "expires_in"},
     access_token |-> access, refresh_token |-> refresh, expires_in |-> expires]
\* Python truth value of a dict: "not spotify_tokens" is true of {} only
Truthy(d) == d.keys # {}

\* models.py lines 3-6: a row of the User table
NoUser == [type |-> "absent"]
UserRow(name, email, preferences) ==
    [type |-> "User", name |-> name, email |-> email, preferences |-> preferences]
NameOf(u) == IF u = 1 THEN "name1" ELSE "nameN"
EmailOf(u) == IF u = 1 THEN "u1@example.org" ELSE "uN@example.org"

\* what get_track_info can return on a 200 answer: limit=1, so the list of
\* matching items has no entry or one
TrackDict == [track_name |-> "t", artist |-> "a", album |-> "al",
              release_date |-> "d", album_type |-> "ty"]
TrackLists == {List(<<>>), List(<<TrackDict>>)}

\* the HTTP answer a client receives; body is the JSON object sent
NoResp == [type |-> "none"]
Http(status, body) == [type |-> "http", status |-> status, body |-> body]
ErrorBody(msg) == [error |-> msg]
\* an exception no view catches (rest_framework handles APIException, Http404
\* and PermissionDenied only): the server answers 500
ServerError(exc) == Http(500, [exception |-> exc])

VARIABLES
    spotify_tokens,  \* views.py line 26, the process-global dict
    users,           \* the User table: id -> row or NoUser
    next_id,         \* the next primary key the table hands out
    pc,              \* per worker: where its handler stands
    view,            \* per worker: the view function it runs
    user_id,         \* per worker: add_preferences' user_id argument
    user,            \* per worker: the User object read at line 195
    access_token,    \* per worker: what get_spotify_token returned
    track_info,      \* per worker: what get_track_info returned
    waited,          \* per worker: time.time() - start_time, in seconds
    opened,          \* per worker: webbrowser.open was called in this request
    slept,           \* per worker: time.sleep was called in this request
    top_tracks,      \* per worker: what get_top_tracks returned
    api_status,      \* per worker: status codes of the Spotify API answers to
                     \* the requests this handler sent, in order
    resp,            \* per worker: the HTTP answer of its last request
    cb_answer,       \* the token endpoint's answer to the last callback
    cb_resp          \* the HTTP answer of the last callback request

vars == <<spotify_tokens, users, next_id, pc, view, user_id, user, access_token,
          track_info, top_tracks, waited, opened, slept, api_status, resp,
          cb_answer, cb_resp>>

locals == <<pc, view, user_id, user, access_token, track_info, top_tracks, waited,
            opened, slept, api_status, resp>>

\* The state after the module is loaded: no token, every worker idle.  The
\* table is persistent; it holds user 1 with the field default (list).
InitLocals ==
    /\ pc = [w \in Workers |-> "idle"]
    /\ view = [w \in Workers |-> "none"]
    /\ user_id = [w \in Workers |-> 0]
    /\ user = [w \in Workers |-> NoUser]
    /\ access_token = [w \in Workers |-> None]
    /\ track_info = [w \in Workers |-> None]
    /\ waited = [w \in Workers |-> 0]
    /\ opened = [w \in Workers |-> FALSE]
    /\ slept = [w \in Workers |-> FALSE]
    /\ top_tracks = [w \in Workers |-> None]
    /\ api_status = [w \in Workers |-> <<>>]
    /\ resp = [w \in Workers |-> NoResp]

InitTable ==
    /\ users = [u \in UserIds |-> IF u = 1 THEN UserRow(NameOf(1), EmailOf(1), List(<<>>))
                                           ELSE NoUser]
    /\ next_id = 2

Init ==
    /\ spotify_tokens = EmptyDict
    /\ InitTable
    /\ InitLocals
    /\ cb_answer = NoResp
    /\ cb_resp = NoResp

\* ---------------------------------------------------------------- callback
\* views.py lines 49-98.  answer is what the token endpoint returns to the
\* POST of line 80.
TokenAnswers ==
    [type : {"answer"}, status : {200}, access_token : AccessTokens,
     refresh_token : RefreshTokens, expires_in : ExpiresIn]
    \cup [type : {"answer"}, status : {400}]

\* (a faulty variant of CallbackTokens: the two tokens of the answer exchanged)
CallbackTokens_Swapped(answer) ==
    TokenDict(answer.refresh_token, answer.access_token, answer.expires_in)
CallbackTokens(answer) ==
    TokenDict(answer.access_token, answer.refresh_token, answer.expires_in)

\* (a faulty variant of Callback: a failed exchange forgets the stored token)
Callback_ClearsOnFailure ==
    \E answer \in TokenAnswers :
        /\ cb_answer' = answer
        /\ IF answer.status = 200
           THEN /\ spotify_tokens' = CallbackTokens(answer)
                /\ cb_resp' = Http(HTTP_200_OK, spotify_tokens')
           ELSE /\ spotify_tokens' = EmptyDict
                /\ cb_resp' = Http(HTTP_400_BAD_REQUEST,
                                   ErrorBody("Error al obtener el token de acceso."))
        /\ UNCHANGED <<users, next_id, locals>>

Callback ==
    \E answer \in TokenAnswers :
        /\ cb_answer' = answer
        /\ IF answer.status = 200
           THEN /\ spotify_tokens' = CallbackTokens(answer)
                /\ cb_resp' = Http(HTTP_200_OK, spotify_tokens')
           ELSE /\ spotify_tokens' = spotify_tokens
                /\ cb_resp' = Http(HTTP_400_BAD_REQUEST,
                                   ErrorBody("Error al obtener el token de acceso."))
        /\ UNCHANGED <<users, next_id, locals>>

\* ------------------------------------------------------- get_spotify_token
\* Where a view goes on once get_spotify_token has returned.
AfterToken(w) == IF view[w] = "add_preferences" THEN "get_track_info" ELSE "get_top_tracks"

\* (a faulty variant of GetSpotifyToken: the test of line 116 left out)
GetSpotifyToken_AlwaysOpens(w) ==
    /\ pc[w] = "get_spotify_token"
    /\ opened' = [opened EXCEPT ![w] = TRUE]
    /\ waited' = [waited EXCEPT ![w] = 0]
    /\ pc' = [pc EXCEPT ![w] = "poll"]
    /\ UNCHANGED <<spotify_tokens, users, next_id, view, user_id, user, access_token,
                   track_info, top_tracks, slept, api_status, resp, cb_answer, cb_resp>>

\* views.py lines 116-121: the call.  With a token stored the function goes
\* straight to the read of line 133; otherwise it opens the browser on the
\* authorization page (spotify_auth, lines 34-46) and enters the wait.
GetSpotifyToken(w) ==
    /\ pc[w] = "get_spotify_token"
    /\ IF ~Truthy(spotify_tokens)
       THEN /\ opened' = [opened EXCEPT ![w] = TRUE]
            /\ waited' = [waited EXCEPT ![w] = 0]
            /\ pc' = [pc EXCEPT ![w] = "poll"]
       ELSE /\ pc' = [pc EXCEPT ![w] = "read_token"]
            /\ UNCHANGED <<opened, waited>>
    /\ UNCHANGED <<spotify_tokens, users, next_id, view, user_id, user, access_token,
                   track_info, top_tracks, slept, api_status, resp, cb_answer, cb_resp>>

\* (a faulty variant of TimedOut: the comparison the wrong way round)
TimedOut_Reversed(elapsed) == elapsed < timeout
\* views.py line 124
TimedOut(elapsed) == elapsed > timeout

\* views.py lines 123-130: one evaluation of the loop condition and of the
\* timeout test.  The timeout branch RETURNS a Response object to the caller,
\* which receives it as its access_token.
Poll(w) ==
    /\ pc[w] = "poll"
    /\ IF Truthy(spotify_tokens)
       THEN /\ pc' = [pc EXCEPT ![w] = "read_token"]
            /\ UNCHANGED access_token
       ELSE IF TimedOut(waited[w])
       THEN /\ access_token' = [access_token EXCEPT ![w] =
                  Response("Se agoto el tiempo de espera. No se pudo obtener el token de acceso.",
                           HTTP_408_REQUEST_TIMEOUT)]
            /\ pc' = [pc EXCEPT ![w] = AfterToken(w)]
       ELSE /\ pc' = [pc EXCEPT ![w] = "sleep"]
            /\ UNCHANGED access_token
    /\ UNCHANGED <<spotify_tokens, users, next_id, view, user_id, user, track_info,
                   top_tracks, waited, opened, slept, api_status, resp, cb_answer, cb_resp>>

\* views.py line 131: time.sleep(1); the clock read at the next poll is one
\* second further on.
Sleep(w) ==
    /\ pc[w] = "sleep"
    /\ waited' = [waited EXCEPT ![w] = waited[w] + 1]
    /\ slept' = [slept EXCEPT ![w] = TRUE]
    /\ pc' = [pc EXCEPT ![w] = "poll"]
    /\ UNCHANGED <<spotify_tokens, users, next_id, view, user_id, user, access_token,
                   track_info, top_tracks, opened, api_status, resp, cb_answer, cb_resp>>

\* views.py lines 133-135: access_token = spotify_tokens["access_token"]; a
\* missing key raises KeyError, which no view catches.
ReadToken(w) ==
    /\ pc[w] = "read_token"
    /\ IF "access_token" \in spotify_tokens.keys
       THEN /\ access_token' = [access_token EXCEPT ![w] = Str(spotify_tokens.access_token)]
            /\ pc' = [pc EXCEPT ![w] = AfterToken(w)]
            /\ UNCHANGED resp
       ELSE /\ resp' = [resp EXCEPT ![w] = ServerError("KeyError")]
            /\ pc' = [pc EXCEPT ![w] = "idle"]
            /\ UNCHANGED access_token
    /\ UNCHANGED <<spotify_tokens, users, next_id, view, user_id, user, track_info,
                   top_tracks, waited, opened, slept, api_status, cb_answer, cb_resp>>

\* ------------------------------------------------------------ Spotify API
\* The status codes the Spotify API can answer to a request whose
\* Authorization header is built from token (views.py lines 156, 239, 279):
\* only a request that carries an access token string can be answered 200.
SpotifyAnswers(token) == IF IsStr(token) THEN SpotifyStatuses ELSE SpotifyStatuses \ {200}

\* ---------------------------------------------------------- add_preferences
\* A worker takes a new request: the locals of its last request are gone.
Begin(w, v, u) ==
    /\ pc[w] = "idle"
    /\ view' = [view EXCEPT ![w] = v]
    /\ user_id' = [user_id EXCEPT ![w] = u]
    /\ access_token' = [access_token EXCEPT ![w] = None]
    /\ track_info' = [track_info EXCEPT ![w] = None]
    /\ top_tracks' = [top_tracks EXCEPT ![w] = None]
    /\ waited' = [waited EXCEPT ![w] = 0]
    /\ opened' = [opened EXCEPT ![w] = FALSE]
    /\ slept' = [slept EXCEPT ![w] = FALSE]
    /\ api_status' = [api_status EXCEPT ![w] = <<>>]

\* views.py line 195: user = User.objects.get(id=user_id); DoesNotExist is
\* caught by no view.  The request is started only on a list with room for
\* one more entry (MaxPrefs).
AddPreferences(w, u) ==
    /\ Begin(w, "add_preferences", u)
    /\ users[u] # NoUser /\ IsList(users[u].preferences)
          => Len(users[u].preferences.items) < MaxPrefs
    /\ IF users[u] = NoUser
       THEN /\ resp' = [resp EXCEPT ![w] = ServerError("DoesNotExist")]
            /\ user' = [user EXCEPT ![w] = NoUser]
            /\ pc' = [pc EXCEPT ![w] = "idle"]
       ELSE /\ user' = [user EXCEPT ![w] = users[u]]
            /\ resp' = [resp EXCEPT ![w] = NoResp]
            /\ pc' = [pc EXCEPT ![w] = "get_spotify_token"]
    /\ UNCHANGED <<spotify_tokens, users, next_id, cb_answer, cb_resp>>

\* views.py lines 138-177, called at line 199: the search request and what
\* get_track_info hands back, a list of track dicts or (RETURNED, not raised)
\* a Response object.
TrackInfoOf(status, tracks) ==
    IF status = 200 THEN tracks
    ELSE Response("Error al obtener las canciones.", HTTP_400_BAD_REQUEST)

GetTrackInfo(w) ==
    /\ pc[w] = "get_track_info"
    /\ \E status \in SpotifyAnswers(access_token[w]), tracks \in TrackLists :
          /\ api_status' = [api_status EXCEPT ![w] = Append(api_status[w], status)]
          /\ track_info' = [track_info EXCEPT ![w] = TrackInfoOf(status, tracks)]
    /\ pc' = [pc EXCEPT ![w] = "save"]
    /\ UNCHANGED <<spotify_tokens, users, next_id, view, user_id, user, access_token,
                   top_tracks, waited, opened, slept, resp, cb_answer, cb_resp>>

\* models.py line 6: a JSONField value is stored with json.dumps, which
\* raises TypeError on a value that holds a Response object.
Serializable(prefs) ==
    IsList(prefs) => \A i \in 1..Len(prefs.items) : ~IsResponse(prefs.items[i].track_info)

\* views.py lines 201-205: the entry appended to user.preferences
Entry(info) == [track_info |-> info]
\* (a faulty variant of Appended: the list is replaced by the new entry alone)
Appended_Replaces(prefs, info) == List(<<Entry(info)>>)
Appended(prefs, info) == List(Append(prefs.items, Entry(info)))

\* views.py lines 201-217: append to the object read at line 195, save it
\* (every field of the row is written, and a row deleted meanwhile is
\* inserted again) and answer 200.  None has no append (AttributeError).
Save(w) ==
    /\ pc[w] = "save"
    /\ pc' = [pc EXCEPT ![w] = "idle"]
    /\ IF ~IsList(user[w].preferences)
       THEN /\ resp' = [resp EXCEPT ![w] = ServerError("AttributeError")]
            /\ UNCHANGED <<user, users>>
       ELSE /\ user' = [user EXCEPT ![w].preferences = Appended(@, track_info[w])]
            /\ IF Serializable(user'[w].preferences)
               THEN /\ users' = [users EXCEPT ![user_id[w]] = user'[w]]
                    /\ resp' = [resp EXCEPT ![w] =
                          Http(HTTP_200_OK,
                               [message |-> "Preferencias agregadas correctamente",
                                preferences |-> user'[w].preferences])]
               ELSE /\ users' = users
                    /\ resp' = [resp EXCEPT ![w] = ServerError("TypeError")]
    /\ UNCHANGED <<spotify_tokens, next_id, view, user_id, access_token, track_info,
                   top_tracks, waited, opened, slept, api_status, cb_answer, cb_resp>>

\* ------------------------------------------------------------ get_user_info
\* views.py lines 301-312
GetUserInfo(w) ==
    /\ Begin(w, "get_user_info", 0)
    /\ user' = [user EXCEPT ![w] = NoUser]
    /\ resp' = [resp EXCEPT ![w] = NoResp]
    /\ pc' = [pc EXCEPT ![w] = "get_spotify_token"]
    /\ UNCHANGED <<spotify_tokens, users, next_id, cb_answer, cb_resp>>

TopTracksDict == [type |-> "dict", keys |-> {"top_tracks"}]
TopArtistsDict == [type |-> "dict", keys |-> {"top_artists"}]

\* views.py lines 260-298, called at line 315.  On a failure the function
\* executes "raise Response(...)": a Response is no exception, so Python
\* raises TypeError, which no view catches.
GetTopTracks(w) ==
    /\ pc[w] = "get_top_tracks"
    /\ \E status \in SpotifyAnswers(access_token[w]) :
          /\ api_status' = [api_status EXCEPT ![w] = Append(api_status[w], status)]
          /\ IF status = 200
             THEN /\ top_tracks' = [top_tracks EXCEPT ![w] = TopTracksDict]
                  /\ pc' = [pc EXCEPT ![w] = "get_top_artists"]
                  /\ UNCHANGED resp
             ELSE /\ resp' = [resp EXCEPT ![w] = ServerError("TypeError")]
                  /\ pc' = [pc EXCEPT ![w] = "idle"]
                  /\ UNCHANGED top_tracks
    /\ UNCHANGED <<spotify_tokens, users, next_id, view, user_id, user, access_token,
                   track_info, waited, opened, slept, cb_answer, cb_resp>>

\* views.py lines 220-257: what get_top_artists hands back, a dict or
\* (RETURNED) a Response object
TopArtistsOf(status) ==
    IF status = 200 THEN TopArtistsDict
    ELSE Response("Error al obtener los artistas", HTTP_400_BAD_REQUEST)

\* views.py lines 313-319: the view answers Response({...}, status=200) with
\* both results in the body; a body that holds a Response object cannot be
\* rendered to JSON (TypeError), and the client is answered 500.
UserInfoResponse(tracks, artists) ==
    IF IsResponse(tracks) \/ IsResponse(artists)
    THEN ServerError("TypeError")
    ELSE Http(HTTP_200_OK, [top_tracks |-> tracks, top_artists |-> artists])

GetTopArtists(w) ==
    /\ pc[w] = "get_top_artists"
    /\ \E status \in SpotifyAnswers(access_token[w]) :
          /\ api_status' = [api_status EXCEPT ![w] = Append(api_status[w], status)]
          /\ resp' = [resp EXCEPT ![w] = UserInfoResponse(top_tracks[w], TopArtistsOf(status))]
    /\ pc' = [pc EXCEPT ![w] = "idle"]
    /\ UNCHANGED <<spotify_tokens, users, next_id, view, user_id, user, access_token,
                   track_info, top_tracks, waited, opened, slept, cb_answer, cb_resp>>

\* -------------------------------------------------------------- UserViewSet
\* views.py lines 29-31 with the serializer of serializers.py: generic
\* create, update and delete of a row.  A client may give preferences any
\* JSON value the field takes: null (null=True) or a list.
PrefsValues ==
    {None} \cup {List(<<>>)} \cup {List(<<Entry(t)>>) : t \in TrackLists}

Create(prefs) ==
    /\ next_id \in UserIds
    /\ users' = [users EXCEPT ![next_id] = UserRow(NameOf(next_id), EmailOf(next_id), prefs)]
    /\ next_id' = next_id + 1
    /\ UNCHANGED <<spotify_tokens, locals, cb_answer, cb_resp>>

Update(u, prefs) ==
    /\ users[u] # NoUser
    /\ users' = [users EXCEPT ![u].preferences = prefs]
    /\ UNCHANGED <<spotify_tokens, next_id, locals, cb_answer, cb_resp>>

Destroy(u) ==
    /\ users[u] # NoUser
    /\ users' = [users EXCEPT ![u] = NoUser]
    /\ UNCHANGED <<spotify_tokens, next_id, locals, cb_answer, cb_resp>>

\* ----------------------------------------------------------- specifications
Main == "w1"

\* the steps of get_spotify_token and of the two views, for worker w
TokenWait(w) == GetSpotifyToken(w) \/ Poll(w) \/ Sleep(w) \/ ReadToken(w)
PreferenceView(w) ==
    \/ \E u \in UserIds : AddPreferences(w, u)
    \/ GetTrackInfo(w)
    \/ Save(w)
InfoView(w) == GetUserInfo(w) \/ GetTopTracks(w) \/ GetTopArtists(w)
ViewSet ==
    \/ \E prefs \in PrefsValues : Create(prefs)
    \/ \E u \in UserIds, prefs \in PrefsValues : Update(u, prefs)
    \/ \E u \in UserIds : Destroy(u)

\* Spec: the server from its start, one worker thread serving requests one
\* after the other, and the callback, which the authorization server's
\* redirect triggers at any time.
Next == Callback \/ TokenWait(Main) \/ PreferenceView(Main) \/ InfoView(Main)
Spec == Init /\ [][Next]_vars

\* SpecLive: Spec with the scheduling the runtime gives a handler thread: a
\* thread that can evaluate the loop test does so, and a sleep returns.
Fairness == WF_vars(Poll(Main)) /\ WF_vars(Sleep(Main))
SpecLive == Spec /\ Fairness

\* The state Spec is in after its first successful callback: a token stored.
FirstAnswer ==
    [type |-> "answer", status |-> 200, access_token |-> "tokA",
     refresh_token |-> "refA", expires_in |-> "3600"]
InitAuthorized ==
    /\ spotify_tokens = CallbackTokens(FirstAnswer)
    /\ InitTable
    /\ InitLocals
    /\ cb_answer = FirstAnswer
    /\ cb_resp = Http(HTTP_200_OK, spotify_tokens)

\* SpecRace: two worker threads running add_preferences at the same time,
\* from the authorized state (so no worker enters the wait).
Preferences(w) == PreferenceView(w) \/ GetSpotifyToken(w) \/ ReadToken(w)
NextRace == \E w \in Workers : Preferences(w)
SpecRace == InitAuthorized /\ [][NextRace]_vars

\* SpecPrefs: one worker thread running add_preferences while UserViewSet
\* requests create, update and delete rows, from the authorized state.
NextPrefs == Preferences(Main) \/ ViewSet
SpecPrefs == InitAuthorized /\ [][NextPrefs]_vars

\* ------------------------------------------------------------------ claims
IsPrefix(a, b) == Len(a) <= Len(b) /\ SubSeq(b, 1, Len(a)) = a
ClientError == 400..499
Answered(w, v) == pc[w] = "idle" /\ view[w] = v /\ resp[w].type = "http"
Succeeded(w) == Answered(w, "add_preferences") /\ resp[w].status = 200
InWait(w) == pc[w] \in {"poll", "sleep"}

\* C1: the save of a successful add_preferences request stores, for its
\* user, the list the request read at line 195 followed by exactly one entry
\* {"track_info": <what get_track_info returned>}: one entry longer, the
\* entries read unchanged and in order; no other user's row changes.
C1_AppendsOneEntry ==
    [][\A w \in Workers :
          (pc[w] = "save" /\ pc'[w] = "idle" /\ resp'[w].status = 200) =>
             LET u == user_id[w]
                 read == user[w].preferences.items
                 stored == users'[u].preferences.items
             IN /\ IsList(users'[u].preferences)
                /\ Len(stored) = Len(read) + 1
                /\ SubSeq(stored, 1, Len(read)) = read
                /\ stored[Len(stored)] = [track_info |-> track_info[w]]
                /\ IsList(track_info[w])
                /\ \A o \in UserIds \ {u} : users'[o] = users[o]]_vars

\* a successful request on a list that had an entry, with another user present
C1_Witness ==
    \E w \in Workers :
        /\ Succeeded(w)
        /\ users[user_id[w]] # NoUser
        /\ users[user_id[w]].preferences = resp[w].body.preferences
        /\ Len(resp[w].body.preferences.items) = 2
        /\ \E o \in UserIds \ {user_id[w]} : users[o] # NoUser

\* C2: every existing user's preferences is a list, and from one state to
\* the next the list of a user only grows: the old value is a prefix of the
\* new one.
C2_PreferencesOnlyGrow ==
    [][\A u \in UserIds :
          (users[u] # NoUser /\ users'[u] # NoUser) =>
             /\ IsList(users[u].preferences)
             /\ IsList(users'[u].preferences)
             /\ IsPrefix(users[u].preferences.items, users'[u].preferences.items)]_vars

\* the steps of a wait of worker w, as lines 116-131 prescribe them
C3_PollStep(w) ==
    /\ (pc[w] = "poll" /\ pc'[w] # "poll") =>
          IF Truthy(spotify_tokens) THEN pc'[w] = "read_token"
          ELSE IF waited[w] > 120 THEN pc'[w] = AfterToken(w) /\ IsResponse(access_token'[w])
          ELSE pc'[w] = "sleep"
    /\ (pc[w] = "sleep" /\ pc'[w] # "sleep") =>
          pc'[w] = "poll" /\ waited'[w] = waited[w] + 1
    /\ (pc[w] = "get_spotify_token" /\ pc'[w] = "poll") => waited'[w] = 0
\* C3: a wait of get_spotify_token ends.  A poll leaves the loop exactly
\* when it sees a token stored or more than 120 seconds elapsed (and then
\* the wait is over); otherwise one sleep of one second follows, and then
\* the next poll; the wait never lasts beyond the first poll after second 120.
C3_WaitTerminates ==
    /\ \A w \in {Main} : InWait(w) ~> ~InWait(w)
    /\ [](\A w \in Workers : InWait(w) => waited[w] <= 121)
    /\ [][\A w \in Workers : C3_PollStep(w)]_vars

\* a wait that ended by the timeout, after 121 sleeps
C3_Witness == \E w \in Workers : ~InWait(w) /\ waited[w] = 121 /\ IsResponse(access_token[w])

\* dict d holds exactly the three fields of the token endpoint's answer
C4_TokensOf(d, answer) ==
    /\ d.keys = {"access_token", "refresh_token", "expires_in"}
    /\ d.access_token = answer.access_token
    /\ d.refresh_token = answer.refresh_token
    /\ d.expires_in = answer.expires_in
\* C4: callback stores a token only on a successful exchange.  Whenever
\* spotify_tokens changes, the answer is a 200 one and spotify_tokens is
\* exactly its access_token, refresh_token and expires_in; the client of a
\* 200 answer gets HTTP 200 with them, the client of any other answer gets
\* HTTP 400 with an error message and spotify_tokens is as before.
C4_CallbackStoresOnSuccess ==
    /\ [](cb_answer # NoResp =>
            IF cb_answer.status = 200
            THEN /\ cb_resp.status = 200
                 /\ C4_TokensOf(cb_resp.body, cb_answer)
                 /\ C4_TokensOf(spotify_tokens, cb_answer)
            ELSE /\ cb_resp.status = 400
                 /\ "error" \in DOMAIN cb_resp.body)
    /\ [][/\ spotify_tokens' # spotify_tokens => cb_answer'.status = 200
          /\ (cb_answer' # NoResp /\ cb_answer'.status # 200) =>
                spotify_tokens' = spotify_tokens]_vars

\* a failed exchange after a successful one: the stored token is still there
C4_Witness ==
    /\ cb_answer # NoResp /\ cb_answer.status = 400
    /\ cb_resp.status = 400
    /\ Truthy(spotify_tokens) /\ spotify_tokens.access_token = "tokB"

\* what an add_preferences request that is over left in the table: the list
\* it read at line 195, without the entry it appended to its own copy
NothingAppended(w) ==
    view[w] = "add_preferences" =>
        /\ users[user_id[w]] # NoUser
        /\ IsList(users[user_id[w]].preferences)
        /\ Appended(users[user_id[w]].preferences, track_info[w]) = user[w].preferences

\* a request that is over and whose token wait ended by the timeout
WaitTimedOut(w) ==
    /\ pc[w] = "idle" /\ resp[w].type = "http"
    /\ opened[w] /\ waited[w] > 120 /\ ~IsStr(access_token[w])

\* C5: a request whose token wait timed out is answered HTTP 4xx with a
\* message, has sent no Spotify API request and has changed no preferences;
\* and get_spotify_token handed it nothing as a token (it never hands its
\* caller anything but the stored access token string).
C5_TimeoutIsClientError ==
    \A w \in Workers :
        WaitTimedOut(w) =>
            /\ resp[w].status \in ClientError
            /\ "error" \in DOMAIN resp[w].body
            /\ api_status[w] = <<>>
            /\ access_token[w] = None
            /\ NothingAppended(w)

\* C6: an add_preferences request whose track search was answered with a
\* status other than 200 is answered HTTP 4xx with an error message (so not
\* 200 "Preferencias agregadas correctamente"), and nothing is appended to
\* the stored list.
C6_SearchFailureIsClientError ==
    \A w \in Workers :
        (Answered(w, "add_preferences") /\ IsStr(access_token[w])
            /\ api_status[w] # <<>> /\ api_status[w][1] # 200) =>
            /\ resp[w].status \in ClientError
            /\ "error" \in DOMAIN resp[w].body
            /\ resp[w].status # 200
            /\ NothingAppended(w)

\* C7: get_user_info answers 200 only when both fetches were answered 200,
\* and a failure of either fetch is answered HTTP 4xx with a message.
C7_InfoFailureIsClientError ==
    \A w \in Workers :
        Answered(w, "get_user_info") =>
            /\ resp[w].status = 200 =>
                  /\ api_status[w] = <<200, 200>>
                  /\ DOMAIN resp[w].body = {"top_tracks", "top_artists"}
            /\ (\E i \in 1..Len(api_status[w]) : api_status[w][i] # 200) =>
                  /\ resp[w].status \in ClientError
                  /\ "error" \in DOMAIN resp[w].body

\* the steps of a call of get_spotify_token by worker w
C8_Step(w) ==
    /\ (pc[w] = "get_spotify_token" /\ pc'[w] # "get_spotify_token") =>
          IF Truthy(spotify_tokens)
          THEN pc'[w] = "read_token" /\ ~opened'[w] /\ ~slept'[w]
          ELSE pc'[w] = "poll" /\ opened'[w]
    /\ (opened'[w] /\ ~opened[w]) => pc[w] = "get_spotify_token" /\ ~Truthy(spotify_tokens)
    /\ (slept'[w] /\ ~slept[w]) => opened[w] /\ pc[w] = "sleep"
    /\ (pc[w] = "read_token" /\ pc'[w] # "read_token") =>
          /\ pc'[w] = AfterToken(w)
          /\ access_token'[w] = Str(spotify_tokens.access_token)
          /\ opened'[w] = opened[w] /\ slept'[w] = slept[w]
\* C8: the browser is opened, and the wait entered, only by a call that
\* finds no token stored; a call that finds a token stored returns the
\* stored access token in its next two steps (the test of line 116, the read
\* of line 133) without opening the browser and without sleeping.
C8_StoredTokenReturnedAtOnce ==
    /\ [](\A w \in Workers : InWait(w) => opened[w])
    /\ [][\A w \in Workers : C8_Step(w)]_vars

\* a request that got the stored token without browser and without sleep
C8_Witness ==
    \E w \in Workers :
        /\ pc[w] = AfterToken(w)
        /\ access_token[w] = Str(spotify_tokens.access_token)
        /\ ~opened[w] /\ ~slept[w]
        /\ cb_answer # NoResp

\* C9: when both workers have completed a successful add_preferences
\* request for the same user, the stored list holds an entry for each of
\* them (the list was empty at the start and nothing else writes it).
C9_NoEntryLost ==
    \A w1, w2 \in Workers :
        (w1 # w2 /\ Succeeded(w1) /\ Succeeded(w2) /\ user_id[w1] = user_id[w2]) =>
            Len(users[user_id[w1]].preferences.items) >= 2

\* C10: spotify_tokens is empty or holds the three keys with an access
\* token the token endpoint issued; once non-empty it stays non-empty; the
\* read of line 133 finds its key, and no request ends in KeyError.
C10_TokensStayPresent ==
    /\ [](\/ spotify_tokens = EmptyDict
          \/ /\ spotify_tokens.keys = {"access_token", "refresh_token", "expires_in"}
             /\ spotify_tokens.access_token \in AccessTokens)
    /\ [](\A w \in Workers :
             /\ pc[w] = "read_token" => "access_token" \in spotify_tokens.keys
             /\ resp[w].type = "http" => resp[w].body # [exception |-> "KeyError"])
    /\ [][Truthy(spotify_tokens) => Truthy(spotify_tokens')]_vars

\* a wait that ended because a poll saw the token, about to read it
C10_Witness ==
    \E w \in Workers : pc[w] = "read_token" /\ opened[w] /\ slept[w] /\ Truthy(spotify_tokens)

====
